---- MODULE Spec2Model ----
(***************************************************************************)
(* Purchase transaction engine of the TicketResell backend: ticket         *)
(* reservation, transactions, payments, MoMo callbacks and seller          *)
(* earnings, as implemented by the Flask controllers and services.         *)
(*                                                                         *)
(* Money is kept in hundredths (50.0 is 5000) so that the 5% commission is *)
(* exact integer arithmetic.  datetime.now() is a logical clock that ticks *)
(* each time a Paid_at timestamp is written.                               *)
(***************************************************************************)
EXTENDS Integers, Sequences, FiniteSets, TLC

\* ---------------------------------------------------------------- bounds
MaxTx == 2
MaxEarn == 2
MaxClock == 2
\* the largest amount posted to /api/earnings/calculate, in whole currency units
MaxUnits == 12

\* ------------------------------------------------------- program constants
\* platform_commission: float = 0.05, as a percentage
CommissionPct == 5
\* the largest platform_commission /api/earnings/calculate accepts (1), as a percentage
MaxRatePct == 100

\* ------------------------------------------------------------- input sets
Users == {1, 2, 3}
\* who posts the sequential requests: the seller and one buyer (a request of the
\* other buyer differs only in the BuyerID it stores)
Callers == {1, 2}
TicketIds == {1}
\* ticket ids a request may name: the listed tickets and one that does not exist
TicketInputs == TicketIds \cup {9}
TicketOwner(t) == 1
TicketPrice(t) == 5000
\* the amount a client that pays the listed price posts to /initiate
InitiateAmounts(t) == {TicketPrice(t)}

\* BuyTicketSchema.payment_method; 'Bank Transfer' and 'Credit Card' take the
\* same branch shape as 'Cash' in _process_payment_by_method
Methods == {"Cash", "Digital Wallet", "Momo"}
SyncMethods == {"Cash", "Bank Transfer", "Credit Card"}
\* how a payment can be asked for: method, payment_data.wallet_type, and whether
\* the MoMo create-request answers resultCode 0 with a payUrl
PayChoices ==
    {[method |-> "Cash", wallet_type |-> "", gatewayOk |-> TRUE],
     [method |-> "Digital Wallet", wallet_type |-> "momo", gatewayOk |-> TRUE],
     [method |-> "Digital Wallet", wallet_type |-> "momo", gatewayOk |-> FALSE],
     [method |-> "Digital Wallet", wallet_type |-> "", gatewayOk |-> TRUE],
     [method |-> "Momo", wallet_type |-> "", gatewayOk |-> TRUE]}
WalletChoices == {[wallet_type |-> c.wallet_type, gatewayOk |-> c.gatewayOk] : c \in PayChoices}
\* TransactionCallbackSchema.status
CallbackStatuses == {"success", "failed", "pending"}

\* Config.MOMO_SECRET_KEY, and a key that is not the shared secret
SecretKey == "MOMO_SECRET_KEY"
ForgedKey == "other_key"
\* resultCode as it appears in the payload ("0" success, "1006" user declined)
ResultCodes == {"0", "1006"}

VARIABLES tickets, transactions, payments, earnings, clock, last, pc, snap, out, settle

dbvars == <<tickets, transactions, payments, earnings>>
concvars == <<pc, snap, out, settle>>
vars == <<tickets, transactions, payments, earnings, clock, last, pc, snap, out, settle>>

\* the persisted rows, as one value the service operators transform
DB == [tickets |-> tickets, transactions |-> transactions,
       payments |-> payments, earnings |-> earnings, clock |-> clock]

\* ------------------------------------------------------------ repositories
\* Ids are autoincrement and never used again: a deleted transaction or payment
\* keeps its place in the table as a row that no query finds.
GoneTransaction == [TicketID |-> 0, BuyerID |-> 0, SellerID |-> 0, Amount |-> 0, Status |-> ""]
GonePayment == [Methods |-> "", Status |-> "", Paid_at |-> 0, amount |-> 0, UserID |-> 0,
                TransactionID |-> 0]
TicketExists(d, id) == id \in DOMAIN d.tickets
TxExists(d, id) == id \in DOMAIN d.transactions /\ d.transactions[id] # GoneTransaction
PaymentExists(d, id) == id \in DOMAIN d.payments /\ d.payments[id] # GonePayment

\* TicketRepository.delete: the payments of the ticket's transactions, the
\* transactions, then the ticket row itself
TicketDelete(d, id) ==
    [d EXCEPT !.payments = [i \in DOMAIN @ |->
                               IF TxExists(d, @[i].TransactionID)
                                  /\ d.transactions[@[i].TransactionID].TicketID = id
                               THEN GonePayment ELSE @[i]],
              !.transactions = [i \in DOMAIN @ |->
                                   IF @[i].TicketID = id THEN GoneTransaction ELSE @[i]],
              !.tickets = [t \in DOMAIN @ \ {id} |-> @[t]]]

\* TicketRepository.update: writes every column of the row from the object
TicketUpdate(d, id, ticket) == [d EXCEPT !.tickets[id] = ticket]

\* TransactionRepository.add: autoincrement id is the row's index
TransactionAdd(d, tx) == [d EXCEPT !.transactions = Append(@, tx)]

\* TransactionRepository.update
TransactionUpdate(d, id, tx) == [d EXCEPT !.transactions[id] = tx]

\* PaymentRepository.add / update
PaymentAdd(d, p) == [d EXCEPT !.payments = Append(@, p)]
PaymentUpdate(d, id, p) == [d EXCEPT !.payments[id] = p]

\* EarningRepository.add
EarningAdd(d, e) == [d EXCEPT !.earnings = Append(@, e)]

\* ------------------------------------------------------- EarningService
\* calculate_seller_earnings with the commission recorded as the seller's earnings
\* (what add_earning_from_transaction records)
CalculateSellerEarningsCommissionOnly(transaction_amount, platform_commission) ==
    LET commission_amount == (transaction_amount * platform_commission) \div 100
        seller_earnings == commission_amount
    IN [transaction_amount |-> transaction_amount,
        platform_commission_rate |-> platform_commission,
        commission_amount |-> commission_amount,
        seller_earnings |-> seller_earnings,
        net_percentage |-> IF transaction_amount # 0
                           THEN (seller_earnings * 100) \div transaction_amount ELSE 0]

\* calculate_seller_earnings: commission = amount * rate, net = amount - commission.
\* Amounts are hundredths and the rate a percentage, so amount * rate is divided
\* by 100; net_percentage is a percentage.
CalculateSellerEarnings(transaction_amount, platform_commission) ==
    LET commission_amount == (transaction_amount * platform_commission) \div 100
        seller_earnings == transaction_amount - commission_amount
    IN [transaction_amount |-> transaction_amount,
        platform_commission_rate |-> platform_commission,
        commission_amount |-> commission_amount,
        seller_earnings |-> seller_earnings,
        net_percentage |-> IF transaction_amount # 0
                           THEN (seller_earnings * 100) \div transaction_amount ELSE 0]

\* process_transaction_earnings: one new Earning row per call; addFails is
\* earning_repository.add raising
ProcessTransactionEarnings(d, seller_id, transaction_amount, addFails) ==
    IF seller_id \notin Users \/ addFails
    THEN [db |-> d, ok |-> FALSE]
    ELSE [db |-> EarningAdd(d, [UserID |-> seller_id,
                                TotalAmount |-> CalculateSellerEarnings(transaction_amount,
                                                                        CommissionPct).seller_earnings]),
          ok |-> TRUE]

\* create_earning: the POST /api/earnings/ body becomes a row for the caller
CreateEarningRow(d, user_id, total_amount) ==
    EarningAdd(d, [UserID |-> user_id, TotalAmount |-> total_amount])

\* ---------------------------------------------------- TransactionService
\* the except-branch of initiate_transaction: re-read the ticket and release it
InitiateRollback(d, ticket_id, reserve_ticket) ==
    IF reserve_ticket /\ TicketExists(d, ticket_id) /\ d.tickets[ticket_id].Status = "Reserved"
    THEN TicketUpdate(d, ticket_id, [d.tickets[ticket_id] EXCEPT !.Status = "Available"])
    ELSE d

\* the status test of initiate_transaction (line 26)
PurchasableStatus(s) == s \in {"Available", "Reserved"}

\* initiate_transaction without its self-purchase test
InitiateTransactionAnyBuyer(d, ticket_id, buyer_id, amount, reserve_ticket, addFails) ==
    IF ~TicketExists(d, ticket_id)
    THEN [db |-> InitiateRollback(d, ticket_id, reserve_ticket), ok |-> FALSE, err |-> "not_found", tx |-> 0]
    ELSE
    LET ticket == d.tickets[ticket_id] IN
    IF ~PurchasableStatus(ticket.Status)
    THEN [db |-> InitiateRollback(d, ticket_id, reserve_ticket), ok |-> FALSE, err |-> "unavailable", tx |-> 0]
    ELSE IF buyer_id \notin Users \/ ticket.OwnerID \notin Users
    THEN [db |-> InitiateRollback(d, ticket_id, reserve_ticket), ok |-> FALSE, err |-> "no_user", tx |-> 0]
    ELSE
    LET d1 == IF reserve_ticket /\ ticket.Status = "Available"
              THEN TicketUpdate(d, ticket_id, [ticket EXCEPT !.Status = "Reserved"])
              ELSE d
        tx == [TicketID |-> ticket_id, BuyerID |-> buyer_id, SellerID |-> ticket.OwnerID,
               Amount |-> amount, Status |-> "pending"]
    IN IF addFails
       THEN [db |-> InitiateRollback(d1, ticket_id, reserve_ticket), ok |-> FALSE, err |-> "db_error", tx |-> 0]
       ELSE [db |-> TransactionAdd(d1, tx), ok |-> TRUE, err |-> "", tx |-> Len(d1.transactions) + 1]

\* initiate_transaction; addFails is transaction_repository.add raising
InitiateTransaction(d, ticket_id, buyer_id, amount, reserve_ticket, addFails) ==
    IF ~TicketExists(d, ticket_id)
    THEN [db |-> InitiateRollback(d, ticket_id, reserve_ticket), ok |-> FALSE, err |-> "not_found", tx |-> 0]
    ELSE
    LET ticket == d.tickets[ticket_id] IN
    IF ~PurchasableStatus(ticket.Status)
    THEN [db |-> InitiateRollback(d, ticket_id, reserve_ticket), ok |-> FALSE, err |-> "unavailable", tx |-> 0]
    ELSE IF buyer_id \notin Users \/ ticket.OwnerID \notin Users
    THEN [db |-> InitiateRollback(d, ticket_id, reserve_ticket), ok |-> FALSE, err |-> "no_user", tx |-> 0]
    ELSE IF ticket.OwnerID = buyer_id
    THEN [db |-> InitiateRollback(d, ticket_id, reserve_ticket), ok |-> FALSE, err |-> "self_purchase", tx |-> 0]
    ELSE
    LET d1 == IF reserve_ticket /\ ticket.Status = "Available"
              THEN TicketUpdate(d, ticket_id, [ticket EXCEPT !.Status = "Reserved"])
              ELSE d
        tx == [TicketID |-> ticket_id, BuyerID |-> buyer_id, SellerID |-> ticket.OwnerID,
               Amount |-> amount, Status |-> "pending"]
    IN IF addFails
       THEN [db |-> InitiateRollback(d1, ticket_id, reserve_ticket), ok |-> FALSE, err |-> "db_error", tx |-> 0]
       ELSE [db |-> TransactionAdd(d1, tx), ok |-> TRUE, err |-> "", tx |-> Len(d1.transactions) + 1]

\* the except-branch of process_transaction_callback for status "success"
CallbackRollback(d, ticket_id, status) ==
    IF status = "success" /\ TicketExists(d, ticket_id) /\ d.tickets[ticket_id].Status = "Sold"
    THEN TicketUpdate(d, ticket_id, [d.tickets[ticket_id] EXCEPT !.Status = "Reserved"])
    ELSE d

\* the duplicate test of process_transaction_callback (line 94)
AlreadyProcessed(tx, status) == tx.Status = status

\* process_transaction_callback with the release of the reserved ticket left out
\* of the "failed" branch
ProcessTransactionCallbackKeepsReserved(d, transaction_id, status) ==
    IF ~TxExists(d, transaction_id)
    THEN [db |-> d, ok |-> FALSE]
    ELSE
    LET transaction == d.transactions[transaction_id]
        ticket_id == transaction.TicketID
        updated == [transaction EXCEPT !.Status = status]
    IN IF AlreadyProcessed(transaction, status)
       THEN [db |-> d, ok |-> TRUE]
       ELSE IF status = "success"
       THEN IF ~TicketExists(d, ticket_id) \/ d.tickets[ticket_id].Status \notin {"Reserved", "Available"}
            THEN [db |-> CallbackRollback(d, ticket_id, status), ok |-> FALSE]
            ELSE [db |-> TransactionUpdate(
                            TicketUpdate(d, ticket_id, [d.tickets[ticket_id] EXCEPT !.Status = "Sold"]),
                            transaction_id, updated),
                  ok |-> TRUE]
       ELSE [db |-> TransactionUpdate(d, transaction_id, updated), ok |-> TRUE]

\* process_transaction_callback whose "failed" branch raises when the ticket is
\* not Reserved, instead of leaving it alone
ProcessTransactionCallbackStrictRelease(d, transaction_id, status) ==
    IF ~TxExists(d, transaction_id)
    THEN [db |-> d, ok |-> FALSE]
    ELSE
    LET transaction == d.transactions[transaction_id]
        ticket_id == transaction.TicketID
        updated == [transaction EXCEPT !.Status = status]
    IN IF AlreadyProcessed(transaction, status)
       THEN [db |-> d, ok |-> TRUE]
       ELSE IF status = "success"
       THEN IF ~TicketExists(d, ticket_id) \/ d.tickets[ticket_id].Status \notin {"Reserved", "Available"}
            THEN [db |-> CallbackRollback(d, ticket_id, status), ok |-> FALSE]
            ELSE [db |-> TransactionUpdate(
                            TicketUpdate(d, ticket_id, [d.tickets[ticket_id] EXCEPT !.Status = "Sold"]),
                            transaction_id, updated),
                  ok |-> TRUE]
       ELSE IF status = "failed"
       THEN IF TicketExists(d, ticket_id) /\ d.tickets[ticket_id].Status = "Reserved"
            THEN [db |-> TransactionUpdate(
                            TicketUpdate(d, ticket_id, [d.tickets[ticket_id] EXCEPT !.Status = "Available"]),
                            transaction_id, updated),
                  ok |-> TRUE]
            ELSE [db |-> d, ok |-> FALSE]
       ELSE [db |-> TransactionUpdate(d, transaction_id, updated), ok |-> TRUE]

\* process_transaction_callback.  PaymentTransactionID, PaymentMethod and the
\* timestamps of a transaction are written but never read by any handler, and
\* are not kept in the row.
ProcessTransactionCallback(d, transaction_id, status) ==
    IF ~TxExists(d, transaction_id)
    THEN [db |-> d, ok |-> FALSE]
    ELSE
    LET transaction == d.transactions[transaction_id]
        ticket_id == transaction.TicketID
        updated == [transaction EXCEPT !.Status = status]
    IN IF AlreadyProcessed(transaction, status)
       THEN [db |-> d, ok |-> TRUE]
       ELSE IF status = "success"
       THEN IF ~TicketExists(d, ticket_id) \/ d.tickets[ticket_id].Status \notin {"Reserved", "Available"}
            THEN [db |-> CallbackRollback(d, ticket_id, status), ok |-> FALSE]
            ELSE [db |-> TransactionUpdate(
                            TicketUpdate(d, ticket_id, [d.tickets[ticket_id] EXCEPT !.Status = "Sold"]),
                            transaction_id, updated),
                  ok |-> TRUE]
       ELSE IF status = "failed"
       THEN [db |-> TransactionUpdate(
                       IF TicketExists(d, ticket_id) /\ d.tickets[ticket_id].Status = "Reserved"
                       THEN TicketUpdate(d, ticket_id, [d.tickets[ticket_id] EXCEPT !.Status = "Available"])
                       ELSE d,
                       transaction_id, updated),
             ok |-> TRUE]
       ELSE [db |-> TransactionUpdate(d, transaction_id, updated), ok |-> TRUE]

\* ------------------------------------------------------- PaymentService
\* create_payment
CreatePayment(d, methods, amount, user_id, transaction_id) ==
    IF user_id \notin Users \/ ~TxExists(d, transaction_id)
    THEN [db |-> d, ok |-> FALSE, pay |-> 0]
    ELSE [db |-> PaymentAdd(d, [Methods |-> methods, Status |-> "pending", Paid_at |-> 0,
                                amount |-> amount, UserID |-> user_id,
                                TransactionID |-> transaction_id]),
          ok |-> TRUE, pay |-> Len(d.payments) + 1]

\* update_payment_status: Status is overwritten, Paid_at is stamped on success
UpdatePaymentStatus(d, payment_id, status) ==
    IF ~PaymentExists(d, payment_id)
    THEN [db |-> d, found |-> FALSE]
    ELSE LET p == d.payments[payment_id]
             p1 == [p EXCEPT !.Status = status,
                             !.Paid_at = IF status = "success" THEN d.clock + 1 ELSE @]
         IN [db |-> [PaymentUpdate(d, payment_id, p1) EXCEPT
                        !.clock = IF status = "success" THEN @ + 1 ELSE @],
             found |-> TRUE]

\* _process_payment_by_method with the cash, bank transfer and credit card
\* handlers answering 'pending' instead of 'success'
ProcessPaymentByMethodSyncPending(method, wallet_type, gatewayOk) ==
    IF method \in SyncMethods
    THEN [raised |-> FALSE, status |-> "pending", has_url |-> FALSE]
    ELSE IF method = "Digital Wallet"
    THEN IF wallet_type = "momo"
         THEN IF gatewayOk
              THEN [raised |-> FALSE, status |-> "pending", has_url |-> TRUE]
              ELSE [raised |-> FALSE, status |-> "failed", has_url |-> FALSE]
         ELSE [raised |-> FALSE, status |-> "pending", has_url |-> FALSE]
    ELSE [raised |-> TRUE, status |-> "failed", has_url |-> FALSE]

\* _process_payment_by_method and the _process_* handlers; gatewayOk is the
\* MoMo create-request answering resultCode 0 with a payUrl.
\* raised: ValueError("Unsupported payment method")
ProcessPaymentByMethod(method, wallet_type, gatewayOk) ==
    IF method \in SyncMethods
    THEN [raised |-> FALSE, status |-> "success", has_url |-> FALSE]
    ELSE IF method = "Digital Wallet"
    THEN IF wallet_type = "momo"
         THEN IF gatewayOk
              THEN [raised |-> FALSE, status |-> "pending", has_url |-> TRUE]
              ELSE [raised |-> FALSE, status |-> "failed", has_url |-> FALSE]
         ELSE [raised |-> FALSE, status |-> "pending", has_url |-> FALSE]
    ELSE [raised |-> TRUE, status |-> "failed", has_url |-> FALSE]

\* process_payment
ProcessPayment(d, payment_id, wallet_type, gatewayOk) ==
    IF ~PaymentExists(d, payment_id) \/ d.payments[payment_id].Status # "pending"
    THEN [db |-> d, ok |-> FALSE, status |-> "", has_url |-> FALSE]
    ELSE
    LET payment == d.payments[payment_id]
        result == ProcessPaymentByMethod(payment.Methods, wallet_type, gatewayOk)
    IN IF result.raised
       THEN [db |-> PaymentUpdate(d, payment_id, [payment EXCEPT !.Status = "failed"]),
             ok |-> FALSE, status |-> "failed", has_url |-> FALSE]
       ELSE [db |-> [PaymentUpdate(d, payment_id,
                        [payment EXCEPT !.Status = result.status,
                                        !.Paid_at = IF result.status = "success" THEN d.clock + 1 ELSE @])
                     EXCEPT !.clock = IF result.status = "success" THEN @ + 1 ELSE @],
             ok |-> TRUE, status |-> result.status, has_url |-> result.has_url]

\* update_transaction_reference: sets an attribute the repository never writes
UpdateTransactionReference(d, transaction_id) ==
    IF ~TxExists(d, transaction_id)
    THEN [db |-> d, ok |-> FALSE]
    ELSE [db |-> TransactionUpdate(d, transaction_id, d.transactions[transaction_id]), ok |-> TRUE]

\* complete_transaction: Status 'completed', ticket status 'sold'
CompleteTransaction(d, transaction_id) ==
    IF ~TxExists(d, transaction_id)
    THEN [db |-> d, ok |-> FALSE]
    ELSE LET transaction == [d.transactions[transaction_id] EXCEPT !.Status = "completed"]
             d1 == TransactionUpdate(d, transaction_id, transaction)
         IN [db |-> IF TicketExists(d1, transaction.TicketID)
                    THEN TicketUpdate(d1, transaction.TicketID,
                                      [d1.tickets[transaction.TicketID] EXCEPT !.Status = "sold"])
                    ELSE d1,
             ok |-> TRUE]

\* ---------------------------------------------------- MomoPaymentGateway
\* A callback payload is a function from the field names it carries to their
\* values.  A value is the text of the field as a sequence of tokens, so that the
\* raw signature string is the text verify_ipn_signature builds.  Of the signed
\* fields, resultCode, message, payType and extraData (str(payment.PaymentID))
\* are kept; the others take the same path through the join.
IdStr == <<"1", "2", "3", "4", "5">>
\* int(extraData) as the repository's id comparison reads it; 0 matches no row
StrId(v) == IF \E i \in DOMAIN IdStr : v = <<IdStr[i]>>
            THEN CHOOSE i \in DOMAIN IdStr : v = <<IdStr[i]>>
            ELSE 0
ExtraDatas == {IdStr[i] : i \in 1..MaxTx}

Has(payload, field) == field \in DOMAIN payload

\* signature_fields of verify_ipn_signature, in its order
SignatureFields == <<"resultCode", "message", "payType", "extraData">>

\* "&".join(f"{field}={value}" for each listed field the payload has)
RECURSIVE RawOver(_, _, _)
RawOver(fields, payload, i) ==
    IF i > Len(fields) THEN <<>>
    ELSE IF ~Has(payload, fields[i]) THEN RawOver(fields, payload, i + 1)
    ELSE LET rest == RawOver(fields, payload, i + 1)
         IN <<fields[i], "=">> \o payload[fields[i]]
               \o (IF rest = <<>> THEN <<>> ELSE <<"&">> \o rest)
RawSignature(payload) == RawOver(SignatureFields, payload, 1)

\* hmac.new(secret_key, raw, sha256).hexdigest(): collision-free in the model
Hmac(key, raw) == [key |-> key, raw |-> raw]

\* verify_ipn_signature
VerifyIpnSignature(payload) ==
    /\ Has(payload, "signature")
    /\ Hmac(SecretKey, RawSignature(payload)) = payload.signature

\* int(data.get('resultCode')) == 0
ResultIsSuccess(resultCode) == resultCode = <<"0">>

\* the notifications the gateway sends: every field, signed with the shared secret
Genuine ==
    {("resultCode" :> <<rc>>) @@ ("message" :> <<"m">>) @@ ("payType" :> <<"qr">>)
        @@ ("extraData" :> <<ed>>) : rc \in ResultCodes, ed \in ExtraDatas}
GatewaySignature(g) == Hmac(SecretKey, RawSignature(g))

\* what a sender can make of a genuine notification without the secret: another
\* resultCode, another extraData, or the payType text moved into message
Alterations(g) ==
    {[g EXCEPT !["resultCode"] = <<rc>>] : rc \in ResultCodes}
    \cup {[g EXCEPT !["extraData"] = <<ed>>] : ed \in ExtraDatas}
    \cup {[k \in DOMAIN g \ {"payType"} |->
             IF k = "message" THEN g[k] \o <<"&", "payType", "=">> \o g["payType"] ELSE g[k]]}

\* payloads a caller can post: a notification's fields with no signature, with a
\* signature made without the secret, as the gateway signed them, or altered
\* with the gateway's signature kept
Payloads ==
    UNION {{g, g @@ ("signature" :> Hmac(ForgedKey, RawSignature(g)))}
           \cup {a @@ ("signature" :> GatewaySignature(g)) : a \in Alterations(g)}
           : g \in Genuine}

\* the signed fields of a payload
SignedFields(payload) == [k \in DOMAIN payload \ {"signature"} |-> payload[k]]

\* the payloads that carry a gateway signature over other field values than their own
TamperedPayloads ==
    {p \in Payloads : /\ Has(p, "signature")
                      /\ \E g \in Genuine : /\ p.signature = GatewaySignature(g)
                                            /\ SignedFields(p) # g}
Tampered(payload) == payload \in TamperedPayloads

\* ------------------------------------------------------------------ state
\* the response of the last request: endpoint and HTTP code; for the transaction
\* endpoints the transaction id and outcome it names; for the MoMo endpoints whether
\* verify_ipn_signature ran and passed, and whether the payload was changed after
\* the gateway signed it
Resp(op, code, id, status, verified, tampered) ==
    [op |-> op, code |-> code, id |-> id, status |-> status,
     verified |-> verified, tampered |-> tampered]

\* a request that has not started yet
Idle == "idle"

\* the two deliveries of a payment outcome that run side by side, by the status
\* each carries
SettleCalls == {"success", "failed"}
\* before ticket_repository.get_by_id has returned
NoTicket == [Status |-> "", OwnerID |-> 0, Price |-> 0]

\* tickets listed through create_ticket with Status 'Available' or 'Cancelled'
Init ==
    /\ \E st \in [TicketIds -> {"Available", "Cancelled"}] :
          tickets = [t \in TicketIds |->
                        [Status |-> st[t], OwnerID |-> TicketOwner(t), Price |-> TicketPrice(t)]]
    /\ transactions = <<>>
    /\ payments = <<>>
    /\ earnings = <<>>
    /\ clock = 0
    /\ last = Resp("none", 0, 0, "", FALSE, FALSE)
    /\ pc = [u \in Users |-> Idle]
    /\ snap = [u \in Users |-> [ticket |-> 0, Status |-> "", tx |-> 0]]
    /\ out = [u \in Users |-> ""]
    /\ settle = [c \in SettleCalls |-> [pc |-> Idle, id |-> 0, seen |-> "", ticket |-> NoTicket]]

\* the tables stay within the model's bounds
Within(d) ==
    /\ Len(d.transactions) <= MaxTx
    /\ Len(d.payments) <= MaxTx
    /\ Len(d.earnings) <= MaxEarn
    /\ d.clock <= MaxClock

\* the request ends: the rows are as the handler left them
Commit(d, response) ==
    /\ Within(d)
    /\ tickets' = d.tickets
    /\ transactions' = d.transactions
    /\ payments' = d.payments
    /\ earnings' = d.earnings
    /\ clock' = d.clock
    /\ last' = response
    /\ UNCHANGED concvars

\* ------------------------------------------------- transaction_controller
\* A handler is a function of the rows it finds and the request: the rows it
\* leaves and its response.
\* POST /api/transactions/initiate
InitiateRequest(d, buyer, ticket_id, method, amount, addFails) ==
    LET r1 == InitiateTransaction(d, ticket_id, buyer, amount, FALSE, addFails) IN
    IF ~r1.ok
    THEN [db |-> r1.db, response |-> Resp("initiate", 500, 0, r1.err, FALSE, FALSE)]
    ELSE LET r2 == CreatePayment(r1.db, method, amount, buyer, r1.tx) IN
         [db |-> r2.db, response |-> Resp("initiate", 200, r1.tx, "pending", FALSE, FALSE)]

\* the earnings_breakdown of preview_transaction: calculate_seller_earnings of the
\* ticket's price at the default commission
PreviewBreakdown(d, ticket_id) ==
    CalculateSellerEarnings(d.tickets[ticket_id].Price, CommissionPct)

\* POST /api/transactions/preview: reads the ticket, writes nothing
PreviewTransactionRequest(d, buyer, ticket_id) ==
    IF ~TicketExists(d, ticket_id)
    THEN [db |-> d, response |-> Resp("preview", 404, 0, "not_found", FALSE, FALSE)]
    ELSE IF d.tickets[ticket_id].Status # "Available"
    THEN [db |-> d, response |-> Resp("preview", 409, 0, "unavailable", FALSE, FALSE)]
    ELSE IF d.tickets[ticket_id].OwnerID = buyer
    THEN [db |-> d, response |-> Resp("preview", 400, 0, "self_purchase", FALSE, FALSE)]
    ELSE IF d.tickets[ticket_id].OwnerID \notin Users
    THEN [db |-> d, response |-> Resp("preview", 500, 0, "no_user", FALSE, FALSE)]
    ELSE [db |-> d,
          response |-> Resp("preview", 200, 0, "", FALSE, FALSE)
                       @@ [earnings_breakdown |-> PreviewBreakdown(d, ticket_id)]]

PreviewTransaction(buyer, ticket_id) ==
    LET r == PreviewTransactionRequest(DB, buyer, ticket_id) IN
    /\ Commit(r.db, r.response)

Initiate(buyer, ticket_id, method, amount, addFails) ==
    LET r == InitiateRequest(DB, buyer, ticket_id, method, amount, addFails) IN
    /\ Commit(r.db, r.response)

\* POST /api/transactions/callback; earnFails is the Earning insert raising, which
\* the handler logs and swallows
TransactionCallbackRequest(d, transaction_id, status, earnFails) ==
    LET r == ProcessTransactionCallback(d, transaction_id, status) IN
    IF ~r.ok
    THEN [db |-> r.db,
          response |-> Resp("transaction_callback", 500, transaction_id, status, FALSE, FALSE)]
    ELSE LET transaction == r.db.transactions[transaction_id]
             e == IF status = "success"
                  THEN ProcessTransactionEarnings(r.db, transaction.SellerID,
                                                  transaction.Amount, earnFails).db
                  ELSE r.db
         IN [db |-> e,
             response |-> Resp("transaction_callback", 200, transaction_id, status, FALSE, FALSE)]

TransactionCallback(transaction_id, status, earnFails) ==
    LET r == TransactionCallbackRequest(DB, transaction_id, status, earnFails) IN
    /\ Commit(r.db, r.response)

\* buy_ticket's settlement, were a failed Earning insert to undo the sale: the
\* database goes back to what it was before process_transaction_callback
BuyTicketSettleReversing(d, ticket, buyer, tx, method, wallet_type, gatewayOk, earnFails) ==
    LET r2 == CreatePayment(d, method, ticket.Price, buyer, tx)
        r3 == ProcessPayment(r2.db, r2.pay, wallet_type, gatewayOk)
    IN
    IF ~r3.ok
    THEN [db |-> r3.db, code |-> 400, status |-> "error"]
    ELSE IF r3.status = "pending" /\ r3.has_url
    THEN [db |-> r3.db, code |-> 200, status |-> "pending"]
    ELSE IF r3.status = "success"
    THEN LET r4 == ProcessTransactionCallback(r3.db, tx, "success") IN
         IF ~r4.ok
         THEN [db |-> r4.db, code |-> 400, status |-> "error"]
         ELSE LET r5 == ProcessTransactionEarnings(r4.db, ticket.OwnerID, ticket.Price, earnFails)
              IN IF ~r5.ok
                 THEN [db |-> r3.db, code |-> 500, status |-> "error"]
                 ELSE [db |-> r5.db, code |-> 200, status |-> "success"]
    ELSE [db |-> r3.db, code |-> 500, status |-> "error"]

\* buy_ticket after initiate_transaction returned: create_payment,
\* process_payment and the branch on the payment result
BuyTicketSettle(d, ticket, buyer, tx, method, wallet_type, gatewayOk, earnFails) ==
    LET r2 == CreatePayment(d, method, ticket.Price, buyer, tx)
        r3 == ProcessPayment(r2.db, r2.pay, wallet_type, gatewayOk)
    IN
    IF ~r3.ok
    THEN \* ValueError("Payment processing failed") -> 400
         [db |-> r3.db, code |-> 400, status |-> "error"]
    ELSE IF r3.status = "pending" /\ r3.has_url
    THEN [db |-> r3.db, code |-> 200, status |-> "pending"]
    ELSE IF r3.status = "success"
    THEN LET r4 == ProcessTransactionCallback(r3.db, tx, "success") IN
         IF ~r4.ok
         THEN [db |-> r4.db, code |-> 400, status |-> "error"]
         ELSE LET r5 == ProcessTransactionEarnings(r4.db, ticket.OwnerID, ticket.Price, earnFails)
              IN IF ~r5.ok
                 THEN \* the insert raised: the outer handler answers 500
                      [db |-> r5.db, code |-> 500, status |-> "error"]
                 ELSE [db |-> r5.db, code |-> 200, status |-> "success"]
    ELSE \* process_transaction_callback(..., error_message=...) is a TypeError:
         \* the call never runs and the handler answers 500
         [db |-> r3.db, code |-> 500, status |-> "error"]

\* POST /api/transactions/buy-ticket
BuyTicketRequest(d, buyer, ticket_id, method, wallet_type, gatewayOk, addFails, earnFails) ==
    IF ~TicketExists(d, ticket_id)
    THEN [db |-> d, response |-> Resp("buy_ticket", 404, 0, "not_found", FALSE, FALSE)]
    ELSE
    LET ticket == d.tickets[ticket_id] IN
    IF ~PurchasableStatus(ticket.Status)
    THEN [db |-> d, response |-> Resp("buy_ticket", 409, 0, "unavailable", FALSE, FALSE)]
    ELSE IF ticket.OwnerID = buyer
    THEN [db |-> d, response |-> Resp("buy_ticket", 400, 0, "self_purchase", FALSE, FALSE)]
    ELSE
    LET r1 == InitiateTransaction(d, ticket_id, buyer, ticket.Price, TRUE, addFails) IN
    IF ~r1.ok
    THEN [db |-> r1.db,
          response |-> Resp("buy_ticket", IF r1.err = "db_error" THEN 500 ELSE 400,
                            0, r1.err, FALSE, FALSE)]
    ELSE LET r == BuyTicketSettle(r1.db, ticket, buyer, r1.tx, method, wallet_type,
                                  gatewayOk, earnFails)
         IN [db |-> r.db, response |-> Resp("buy_ticket", r.code, r1.tx, r.status, FALSE, FALSE)]

BuyTicket(buyer, ticket_id, method, wallet_type, gatewayOk, addFails, earnFails) ==
    LET r == BuyTicketRequest(DB, buyer, ticket_id, method, wallet_type, gatewayOk,
                              addFails, earnFails) IN
    /\ Commit(r.db, r.response)

\* --------------------------------------------------------- ticket_controller
\* TicketRequestSchema.Status
TicketStatuses == {"Available", "Sold", "Reserved", "Cancelled"}
\* TicketRequestSchema.Price as the owner posts it
UpdatePrices(t) == {TicketPrice(t)}

\* PUT /api/tickets/<id>: the owner's body replaces the row's columns, Status
\* included (TicketService.update_ticket sets every keyword it is given)
UpdateTicket(user_id, ticket_id, Status, Price) ==
    IF ~TicketExists(DB, ticket_id)
    THEN Commit(DB, Resp("update_ticket", 404, 0, "", FALSE, FALSE))
    ELSE IF tickets[ticket_id].OwnerID # user_id
    THEN Commit(DB, Resp("update_ticket", 403, 0, "", FALSE, FALSE))
    ELSE Commit(TicketUpdate(DB, ticket_id,
                             [tickets[ticket_id] EXCEPT !.Status = Status, !.Price = Price]),
                Resp("update_ticket", 200, 0, "", FALSE, FALSE))

\* DELETE /api/tickets/<event_name>/<owner_username>: the pair names the ticket;
\* its owner deletes it whatever its status and whatever refers to it
DeleteTicketRequest(d, user_id, ticket_id) ==
    IF ~TicketExists(d, ticket_id)
    THEN [db |-> d, response |-> Resp("delete_ticket", 404, 0, "", FALSE, FALSE)]
    ELSE IF d.tickets[ticket_id].OwnerID # user_id
    THEN [db |-> d, response |-> Resp("delete_ticket", 403, 0, "", FALSE, FALSE)]
    ELSE [db |-> TicketDelete(d, ticket_id),
          response |-> Resp("delete_ticket", 204, 0, "", FALSE, FALSE)]

DeleteTicket(user_id, ticket_id) ==
    LET r == DeleteTicketRequest(DB, user_id, ticket_id) IN
    /\ Commit(r.db, r.response)

\* ----------------------------------------------------- payment_controller
\* POST /api/payments/<id>/process
ProcessPaymentEndpoint(payment_id, wallet_type, gatewayOk) ==
    LET r == ProcessPayment(DB, payment_id, wallet_type, gatewayOk) IN
    IF ~r.ok
    THEN Commit(r.db, Resp("process_payment", 400, 0, r.status, FALSE, FALSE))
    ELSE Commit(r.db, Resp("process_payment", 200, 0, r.status, FALSE, FALSE))

\* extraData as the handlers read it
PayloadPaymentId(payload) == IF Has(payload, "extraData") THEN StrId(payload.extraData) ELSE 0

\* resultCode 0 is success, anything else failed
CallbackStatus(payload) ==
    IF Has(payload, "resultCode") /\ ResultIsSuccess(payload.resultCode) THEN "success" ELSE "failed"

\* GET /api/payments/momo/return: reads resultCode, verifies nothing, writes nothing
MomoReturn(payload) ==
    IF ~Has(payload, "resultCode")
    THEN \* int(None) raises -> 500
         Commit(DB, Resp("momo_return", 500, 0, "", FALSE, Tampered(payload)))
    ELSE Commit(DB, Resp("momo_return", 200, 0, "", FALSE, Tampered(payload)))

\* the common head of momo_ipn, momo_callback_json and momo_notify_url:
\* signature, extraData, resultCode; 0 when the request goes on
CallbackReject(payload) ==
    IF ~VerifyIpnSignature(payload) THEN 400
    ELSE IF ~Has(payload, "extraData") \/ payload.extraData = <<>> THEN 400
    ELSE IF ~Has(payload, "resultCode") THEN 500
    ELSE 0

\* POST /api/payments/momo/ipn
MomoIpn(payload) ==
    LET code == CallbackReject(payload)
        status == CallbackStatus(payload)
        payment_id == PayloadPaymentId(payload)
    IN
    IF code # 0
    THEN Commit(DB, Resp("momo_ipn", code, 0, "",
                         VerifyIpnSignature(payload), Tampered(payload)))
    ELSE
    LET r == UpdatePaymentStatus(DB, payment_id, status)
        e == IF status = "success" /\ r.found
                /\ TxExists(r.db, r.db.payments[payment_id].TransactionID)
             THEN LET transaction == r.db.transactions[r.db.payments[payment_id].TransactionID]
                  IN ProcessTransactionEarnings(r.db, transaction.SellerID, transaction.Amount, FALSE).db
             ELSE r.db
    IN Commit(e, Resp("momo_ipn", 200, 0, "", TRUE, Tampered(payload)))

\* POST /api/payments/momo/callback/json
MomoCallbackJson(payload) ==
    LET code == CallbackReject(payload)
        status == CallbackStatus(payload)
        payment_id == PayloadPaymentId(payload)
    IN
    IF code # 0
    THEN Commit(DB, Resp("momo_callback_json", code, 0, "",
                         VerifyIpnSignature(payload), Tampered(payload)))
    ELSE Commit(UpdatePaymentStatus(DB, payment_id, status).db,
                Resp("momo_callback_json", 200, 0, "", TRUE, Tampered(payload)))

\* POST /api/payments/momo/notify
MomoNotifyUrl(payload) ==
    LET code == CallbackReject(payload)
        status == CallbackStatus(payload)
        payment_id == PayloadPaymentId(payload)
    IN
    IF code # 0
    THEN Commit(DB, Resp("momo_notify_url", code, 0, "",
                         VerifyIpnSignature(payload), Tampered(payload)))
    ELSE Commit(UpdatePaymentStatus(DB, payment_id, status).db,
                Resp("momo_notify_url", 200, 0, "", TRUE, Tampered(payload)))

\* POST /api/payments/momo/callback/process: error_code, status, payment_id and
\* transaction_id are read from the body; no signature is asked for
MomoCallbackProcess(error_code, status, payment_id) ==
    LET payment_status == IF error_code = 0 /\ status = "success" THEN "success" ELSE "failed"
        r == UpdatePaymentStatus(DB, payment_id, payment_status)
    IN
    IF payment_status # "success"
    THEN Commit(r.db, Resp("momo_callback_process", 200, 0, "", FALSE, FALSE))
    ELSE IF ~r.found
    THEN \* payment is None: AttributeError, outer handler
         Commit(r.db, Resp("momo_callback_process", 500, 0, "", FALSE, FALSE))
    ELSE
    LET transaction_id == r.db.payments[payment_id].TransactionID
        r2 == UpdateTransactionReference(r.db, transaction_id)
    IN IF ~r2.ok
       THEN Commit(r2.db, Resp("momo_callback_process", 400, 0, "", FALSE, FALSE))
       ELSE Commit(CompleteTransaction(r2.db, transaction_id).db,
                   Resp("momo_callback_process", 200, 0, "", FALSE, FALSE))

\* ----------------------------------------------------- earning_controller
\* POST /api/earnings/: the caller records an earning for themselves
CreateEarning(user_id, total_amount) ==
    IF user_id \notin Users
    THEN \* ValueError("User not found") -> 404
         Commit(DB, Resp("create_earning", 404, 0, "", FALSE, FALSE))
    ELSE Commit(CreateEarningRow(DB, user_id, total_amount),
                Resp("create_earning", 201, 0, "", FALSE, FALSE))

\* POST /api/earnings/calculate: the breakdown is the response body
CalculateEarnings(user_id, transaction_amount, platform_commission) ==
    IF transaction_amount < 0 \/ platform_commission < 0 \/ platform_commission > MaxRatePct
    THEN Commit(DB, Resp("calculate_earnings", 400, 0, "", FALSE, FALSE))
    ELSE IF user_id \notin Users
    THEN \* ValueError("User not found") -> 404
         Commit(DB, Resp("calculate_earnings", 404, 0, "", FALSE, FALSE))
    ELSE Commit(DB, Resp("calculate_earnings", 200, 0, "", FALSE, FALSE)
                    @@ [calculation |-> CalculateSellerEarnings(transaction_amount,
                                                                platform_commission)])

\* what is posted to /api/earnings/calculate: whole currency units in hundredths
\* (a negative amount, and 100.00), rates in steps of 0.05 (and one on each side
\* of [0, 1])
CalcAmounts == {100 * k : k \in -1..MaxUnits} \cup {10000}
CalcRates == {5 * k : k \in -1..(MaxRatePct \div 5 + 1)}
\* a caller whose user row exists, and one whose row is gone
CalcCallers == {1, 0}

\* transaction and payment ids a request may name, whether the row exists yet or not
IdInputs == 1..MaxTx

\* payment choices that go through the MoMo gateway
MomoChoices == {c \in PayChoices : c.wallet_type = "momo"}

\* the transaction engine: purchases, settlement callbacks and earnings
Next ==
    \/ \E b \in Callers, t \in TicketInputs, m \in Methods, f \in BOOLEAN :
          \E a \in InitiateAmounts(t) : Initiate(b, t, m, a, f)
    \/ \E b \in Callers, t \in TicketInputs, c \in PayChoices, f \in BOOLEAN :
          BuyTicket(b, t, c.method, c.wallet_type, c.gatewayOk, f, FALSE)
    \/ \E i \in IdInputs, s \in CallbackStatuses : TransactionCallback(i, s, FALSE)
    \/ \E i \in IdInputs, c \in WalletChoices : ProcessPaymentEndpoint(i, c.wallet_type, c.gatewayOk)
    \/ \E u \in Callers : CreateEarning(u, 100)

Spec == Init /\ [][Next]_vars

\* MoMo purchases and every callback endpoint a payment outcome can arrive on
NextMomo ==
    \/ \E b \in Callers, t \in TicketInputs, c \in MomoChoices, f \in BOOLEAN :
          BuyTicket(b, t, c.method, c.wallet_type, c.gatewayOk, f, FALSE)
    \/ \E i \in IdInputs, s \in CallbackStatuses : TransactionCallback(i, s, FALSE)
    \/ \E p \in Payloads : MomoReturn(p)
    \/ \E p \in Payloads : MomoIpn(p)
    \/ \E p \in Payloads : MomoCallbackJson(p)
    \/ \E p \in Payloads : MomoNotifyUrl(p)
    \/ \E c \in {0, 99}, s \in {"success", "failed"}, i \in IdInputs : MomoCallbackProcess(c, s, i)

SpecMomo == Init /\ [][NextMomo]_vars

\* purchases through buy_ticket and their settlement through the transaction callback
NextSettle ==
    \/ \E b \in Callers, t \in TicketInputs, c \in PayChoices, f \in BOOLEAN :
          BuyTicket(b, t, c.method, c.wallet_type, c.gatewayOk, f, FALSE)
    \/ \E i \in IdInputs, s \in CallbackStatuses : TransactionCallback(i, s, FALSE)

SpecSettle == Init /\ [][NextSettle]_vars

\* the synchronous methods, and the MoMo wallet with both answers of its gateway
PurchaseChoices ==
    {[method |-> m, wallet_type |-> "", gatewayOk |-> TRUE] : m \in SyncMethods} \cup MomoChoices

\* purchases that settle inline or through the MoMo gateway, and their settlement
NextPurchase ==
    \/ \E b \in Callers, t \in TicketInputs, c \in PurchaseChoices, f \in BOOLEAN :
          BuyTicket(b, t, c.method, c.wallet_type, c.gatewayOk, f, FALSE)
    \/ \E i \in IdInputs, s \in CallbackStatuses : TransactionCallback(i, s, FALSE)

SpecPurchase == Init /\ [][NextPurchase]_vars

\* a method that settles inline, and the MoMo wallet whose gateway took the order
EarnFailChoices ==
    {c \in PayChoices : c.method = "Cash" \/ (c.wallet_type = "momo" /\ c.gatewayOk)}

\* purchases and settlements with the Earning insert free to raise
NextEarnFail ==
    \/ \E b \in Callers, t \in TicketInputs, c \in EarnFailChoices, e \in BOOLEAN :
          BuyTicket(b, t, c.method, c.wallet_type, c.gatewayOk, FALSE, e)
    \/ \E i \in IdInputs, s \in CallbackStatuses, e \in BOOLEAN : TransactionCallback(i, s, e)

SpecEarnFail == Init /\ [][NextEarnFail]_vars

\* amounts a client can post to /initiate: the ticket's price, and 1.00
\* (TransactionInitiateSchema accepts every amount from 0.01)
PostedAmounts(t) == {TicketPrice(t), 100}

\* previews, both ways into a purchase with the amount /initiate is posted, and
\* the settlement callback
NextAmount ==
    \/ \E b \in Callers, t \in TicketInputs : PreviewTransaction(b, t)
    \/ \E b \in Callers, t \in TicketInputs, m \in Methods, f \in BOOLEAN :
          \E a \in PostedAmounts(t) : Initiate(b, t, m, a, f)
    \/ \E b \in Callers, t \in TicketInputs, c \in EarnFailChoices, f \in BOOLEAN :
          BuyTicket(b, t, c.method, c.wallet_type, c.gatewayOk, f, FALSE)
    \/ \E i \in IdInputs, s \in CallbackStatuses : TransactionCallback(i, s, FALSE)

SpecAmount == Init /\ [][NextAmount]_vars

\* both ways into a purchase, with the MoMo wallet's two gateway answers, and the
\* settlement callback
NextEntry ==
    \/ \E b \in Callers, t \in TicketInputs, m \in Methods, f \in BOOLEAN :
          \E a \in InitiateAmounts(t) : Initiate(b, t, m, a, f)
    \/ \E b \in Callers, t \in TicketInputs, c \in MomoChoices, f \in BOOLEAN :
          BuyTicket(b, t, c.method, c.wallet_type, c.gatewayOk, f, FALSE)
    \/ \E i \in IdInputs, s \in CallbackStatuses : TransactionCallback(i, s, FALSE)

SpecEntry == Init /\ [][NextEntry]_vars

\* purchases, their settlement, and the owner editing the listing
NextTicket ==
    \/ \E b \in Callers, t \in TicketInputs, c \in PayChoices, f \in BOOLEAN :
          BuyTicket(b, t, c.method, c.wallet_type, c.gatewayOk, f, FALSE)
    \/ \E i \in IdInputs, s \in CallbackStatuses : TransactionCallback(i, s, FALSE)
    \/ \E u \in Callers, t \in TicketInputs, st \in TicketStatuses :
          \E p \in UpdatePrices(t) : UpdateTicket(u, t, st, p)

SpecTicket == Init /\ [][NextTicket]_vars

\* purchases, their settlement, and the owner deleting the listing
NextDelete ==
    \/ \E b \in Callers, t \in TicketInputs, c \in PayChoices, f \in BOOLEAN :
          BuyTicket(b, t, c.method, c.wallet_type, c.gatewayOk, f, FALSE)
    \/ \E i \in IdInputs, s \in CallbackStatuses : TransactionCallback(i, s, FALSE)
    \/ \E u \in Callers, t \in TicketInputs : DeleteTicket(u, t)

SpecDelete == Init /\ [][NextDelete]_vars

\* the earnings calculator
NextCalc ==
    \E u \in CalcCallers, a \in CalcAmounts, r \in CalcRates : CalculateEarnings(u, a, r)

SpecCalc == Init /\ [][NextCalc]_vars

\* ------------------------------------------- buy_ticket, statement by statement
\* Each buyer runs one buy_ticket request; the requests interleave between their
\* database statements.  pc is the statement a request is at, snap the ticket
\* object initiate_transaction read and the transaction it created, out the
\* request's outcome.
Buyers == {u \in Users : \A t \in TicketIds : TicketOwner(t) # u}

\* a statement ends: the rows are as it left them
ConcWrite(d) ==
    /\ tickets' = d.tickets
    /\ transactions' = d.transactions
    /\ payments' = d.payments
    /\ earnings' = d.earnings
    /\ clock' = d.clock

\* the request answers
ConcDone(u, outcome, response) ==
    /\ pc' = [pc EXCEPT ![u] = "done"]
    /\ out' = [out EXCEPT ![u] = outcome]
    /\ last' = response

\* buy_ticket: ticket_service.get_ticket and the controller's checks
ConcRead(u, ticket_id) ==
    /\ pc[u] = Idle
    /\ UNCHANGED settle
    /\ ConcWrite(DB)
    /\ IF ~TicketExists(DB, ticket_id)
       THEN ConcDone(u, "not_found", Resp("buy_ticket", 404, 0, "not_found", FALSE, FALSE))
                /\ UNCHANGED snap
       ELSE IF ~PurchasableStatus(tickets[ticket_id].Status)
       THEN ConcDone(u, "unavailable", Resp("buy_ticket", 409, 0, "unavailable", FALSE, FALSE))
                /\ UNCHANGED snap
       ELSE IF tickets[ticket_id].OwnerID = u
       THEN ConcDone(u, "self_purchase", Resp("buy_ticket", 400, 0, "self_purchase", FALSE, FALSE))
                /\ UNCHANGED snap
       ELSE /\ pc' = [pc EXCEPT ![u] = "service_read"]
            /\ snap' = [snap EXCEPT ![u].ticket = ticket_id]
            /\ UNCHANGED <<out, last>>

\* initiate_transaction: ticket_repository.get_by_id and the status test
ConcServiceRead(u) ==
    /\ pc[u] = "service_read"
    /\ UNCHANGED settle
    /\ IF ~TicketExists(DB, snap[u].ticket) \/ ~PurchasableStatus(tickets[snap[u].ticket].Status)
       THEN /\ ConcWrite(InitiateRollback(DB, snap[u].ticket, TRUE))
            /\ ConcDone(u, "unavailable", Resp("buy_ticket", 400, 0, "unavailable", FALSE, FALSE))
            /\ UNCHANGED snap
       ELSE /\ ConcWrite(DB)
            /\ pc' = [pc EXCEPT ![u] = "reserve"]
            /\ snap' = [snap EXCEPT ![u].Status = tickets[snap[u].ticket].Status]
            /\ UNCHANGED <<out, last>>

\* initiate_transaction: the reservation, written from the object read earlier
ConcReserve(u) ==
    /\ pc[u] = "reserve"
    /\ UNCHANGED settle
    /\ ConcWrite(IF snap[u].Status = "Available"
                 THEN TicketUpdate(DB, snap[u].ticket,
                                   [tickets[snap[u].ticket] EXCEPT !.Status = "Reserved"])
                 ELSE DB)
    /\ pc' = [pc EXCEPT ![u] = "add"]
    /\ UNCHANGED <<snap, out, last>>

\* initiate_transaction: transaction_repository.add, or its except-branch
ConcAddTransaction(u, addFails) ==
    /\ pc[u] = "add"
    /\ UNCHANGED settle
    /\ IF addFails
       THEN /\ ConcWrite(InitiateRollback(DB, snap[u].ticket, TRUE))
            /\ ConcDone(u, "error", Resp("buy_ticket", 500, 0, "db_error", FALSE, FALSE))
            /\ UNCHANGED snap
       ELSE /\ Within(TransactionAdd(DB, [TicketID |-> snap[u].ticket, BuyerID |-> u,
                                          SellerID |-> tickets[snap[u].ticket].OwnerID,
                                          Amount |-> tickets[snap[u].ticket].Price,
                                          Status |-> "pending"]))
            /\ ConcWrite(TransactionAdd(DB, [TicketID |-> snap[u].ticket, BuyerID |-> u,
                                             SellerID |-> tickets[snap[u].ticket].OwnerID,
                                             Amount |-> tickets[snap[u].ticket].Price,
                                             Status |-> "pending"]))
            /\ pc' = [pc EXCEPT ![u] = "settle"]
            /\ snap' = [snap EXCEPT ![u].tx = Len(transactions) + 1]
            /\ UNCHANGED <<out, last>>

\* buy_ticket: the payment and the branch on its result
ConcSettle(u, method, wallet_type, gatewayOk) ==
    /\ pc[u] = "settle"
    /\ UNCHANGED settle
    /\ LET r == BuyTicketSettle(DB, tickets[snap[u].ticket], u, snap[u].tx,
                                method, wallet_type, gatewayOk, FALSE)
       IN /\ Within(r.db)
          /\ ConcWrite(r.db)
          /\ ConcDone(u, IF r.code = 200 THEN "ok" ELSE "error",
                      Resp("buy_ticket", r.code, snap[u].tx, r.status, FALSE, FALSE))
    /\ UNCHANGED snap

NextConc ==
    \/ \E u \in Buyers, t \in TicketInputs : ConcRead(u, t)
    \/ \E u \in Buyers : ConcServiceRead(u)
    \/ \E u \in Buyers : ConcReserve(u)
    \/ \E u \in Buyers, f \in BOOLEAN : ConcAddTransaction(u, f)
    \/ \E u \in Buyers, c \in PayChoices : ConcSettle(u, c.method, c.wallet_type, c.gatewayOk)

SpecConc == Init /\ [][NextConc]_vars

\* --------------------------- transaction_callback, statement by statement
\* Two deliveries for a transaction run side by side, one with status success and
\* one with failed; they interleave between their database statements.
\* settle[c] is the delivery with status c: the statement it is at, the
\* transaction id it was posted with, the Status it read, and the ticket object
\* it holds.
SettleAt(c, pc1) == settle' = [settle EXCEPT ![c].pc = pc1]

SettleAnswer(c, code) ==
    last' = Resp("transaction_callback", code, settle[c].id, c, FALSE, FALSE)

\* transaction_repository.get_by_id and the duplicate test
SettleReadTx(c, transaction_id) ==
    /\ settle[c].pc = Idle
    /\ ConcWrite(DB)
    /\ UNCHANGED <<pc, snap, out>>
    /\ IF ~TxExists(DB, transaction_id)
       THEN /\ settle' = [settle EXCEPT ![c].pc = "done", ![c].id = transaction_id]
            /\ last' = Resp("transaction_callback", 500, transaction_id, c, FALSE, FALSE)
       ELSE /\ settle' = [settle EXCEPT
                            ![c].pc = IF AlreadyProcessed(transactions[transaction_id], c)
                                      THEN IF c = "success" THEN "earn" ELSE "answer"
                                      ELSE "ticket",
                            ![c].id = transaction_id,
                            ![c].seen = transactions[transaction_id].Status]
            /\ UNCHANGED last

\* ticket_repository.get_by_id and the test on the ticket's status
SettleReadTicket(c) ==
    /\ settle[c].pc = "ticket"
    /\ ConcWrite(DB)
    /\ UNCHANGED <<pc, snap, out, last>>
    /\ LET ticket_id == transactions[settle[c].id].TicketID IN
       IF c = "success"
       THEN IF ~TicketExists(DB, ticket_id)
               \/ tickets[ticket_id].Status \notin {"Reserved", "Available"}
            THEN SettleAt(c, "rollback")
            ELSE settle' = [settle EXCEPT
                              ![c].pc = "write_ticket",
                              ![c].ticket = [tickets[ticket_id] EXCEPT !.Status = "Sold"]]
       ELSE IF TicketExists(DB, ticket_id) /\ tickets[ticket_id].Status = "Reserved"
            THEN settle' = [settle EXCEPT
                              ![c].pc = "write_ticket",
                              ![c].ticket = [tickets[ticket_id] EXCEPT !.Status = "Available"]]
            ELSE SettleAt(c, "write_tx")

\* ticket_repository.update: the row becomes the object the call holds
SettleWriteTicket(c) ==
    /\ settle[c].pc = "write_ticket"
    /\ ConcWrite(TicketUpdate(DB, transactions[settle[c].id].TicketID, settle[c].ticket))
    /\ SettleAt(c, "write_tx")
    /\ UNCHANGED <<pc, snap, out, last>>

\* transaction_repository.update: the row's Status becomes the call's status
SettleWriteTx(c) ==
    /\ settle[c].pc = "write_tx"
    /\ ConcWrite(TransactionUpdate(DB, settle[c].id,
                                   [transactions[settle[c].id] EXCEPT !.Status = c]))
    /\ SettleAt(c, IF c = "success" THEN "earn" ELSE "answer")
    /\ UNCHANGED <<pc, snap, out, last>>

\* the except-branch of process_transaction_callback, then the handler's 500
SettleRollback(c) ==
    /\ settle[c].pc = "rollback"
    /\ ConcWrite(CallbackRollback(DB, transactions[settle[c].id].TicketID, c))
    /\ SettleAt(c, "done")
    /\ SettleAnswer(c, 500)
    /\ UNCHANGED <<pc, snap, out>>

\* transaction_callback: process_transaction_earnings for status success, then 200
SettleEarn(c) ==
    /\ settle[c].pc = "earn"
    /\ LET transaction == transactions[settle[c].id]
           d == ProcessTransactionEarnings(DB, transaction.SellerID, transaction.Amount, FALSE).db
       IN Within(d) /\ ConcWrite(d)
    /\ SettleAt(c, "done")
    /\ SettleAnswer(c, 200)
    /\ UNCHANGED <<pc, snap, out>>

\* transaction_callback: the 200 of a delivery with status failed
SettleReturn(c) ==
    /\ settle[c].pc = "answer"
    /\ ConcWrite(DB)
    /\ SettleAt(c, "done")
    /\ SettleAnswer(c, 200)
    /\ UNCHANGED <<pc, snap, out>>

\* purchases, and the two deliveries
NextSettleConc ==
    \/ \E b \in Callers, t \in TicketIds, c \in PayChoices :
          BuyTicket(b, t, c.method, c.wallet_type, c.gatewayOk, FALSE, FALSE)
    \/ \E c \in SettleCalls, i \in IdInputs : SettleReadTx(c, i)
    \/ \E c \in SettleCalls : SettleReadTicket(c)
    \/ \E c \in SettleCalls : SettleWriteTicket(c)
    \/ \E c \in SettleCalls : SettleWriteTx(c)
    \/ \E c \in SettleCalls : SettleRollback(c)
    \/ \E c \in SettleCalls : SettleEarn(c)
    \/ \E c \in SettleCalls : SettleReturn(c)

SpecSettleConc == Init /\ [][NextSettleConc]_vars

\* ------------------------------------------------------------------ properties
TerminalStatuses == {"success", "failed"}
\* the endpoints an outcome can arrive on
CallbackOps == {"momo_ipn", "momo_notify_url", "momo_callback_json",
                "momo_callback_process", "momo_return", "transaction_callback"}
\* the transactions of ticket t whose status is in S
TransactionsOf(t, S) ==
    {i \in DOMAIN transactions : transactions[i].TicketID = t /\ transactions[i].Status \in S}

\* C1: no double sale.  Of the buy_ticket requests that run concurrently for the
\* same ticket, at most one gets as far as reserving it and creating a
\* transaction, whatever the interleaving of their read-ticket, write-ticket and
\* create-transaction statements; the others are turned away as unavailable.
C1_NoDoubleSale ==
    \A t \in TicketIds :
        Cardinality({u \in Buyers : snap[u].ticket = t /\ snap[u].tx # 0}) <= 1

\* C2: a ticket is purchased by at most one buyer.  In every reachable state each
\* ticket has at most one transaction with status success (a ticket with two
\* at once has had two that became success).
C2_OneSuccessPerTicket ==
    \A t \in TicketIds : Cardinality(TransactionsOf(t, {"success"})) <= 1

\* C3: reservation succeeds only from Available.  A purchase request (initiate or
\* buy_ticket) made while no ticket is Available -- each is Reserved, Sold or
\* Cancelled -- is not answered 200, creates no transaction and no payment,
\* and leaves every ticket as it was.
C3_OnlyFromAvailable ==
    [][(/\ last'.op \in {"initiate", "buy_ticket"}
        /\ \A t \in TicketIds : tickets[t].Status \in {"Reserved", "Sold", "Cancelled"})
       => (last'.code # 200 /\ UNCHANGED dbvars)]_vars

\* C4: outcome monotonicity.  Once a transaction is success or failed, no later
\* request changes its status or any other field of its row.
C4_TerminalIsFinal ==
    [][\A i \in DOMAIN transactions :
          transactions[i].Status \in TerminalStatuses => transactions'[i] = transactions[i]]_vars

\* C5: idempotent settlement.  When the transaction callback has delivered success
\* for a transaction and delivers success for the same transaction again, the
\* second delivery changes nothing: same ticket, transaction, payment (and its
\* Paid_at) and the same Earning rows as after the first.
C5_SecondSuccessChangesNothing ==
    [][(/\ last.op = "transaction_callback" /\ last.code = 200 /\ last.status = "success"
        /\ last'.op = "transaction_callback" /\ last'.status = "success"
        /\ last'.id = last.id)
       => UNCHANGED dbvars]_vars

\* C6: exactly one Earning per successful sale.  In every reachable state, every
\* user has as many Earning rows as there are success transactions they are the
\* seller of.
C6_OneEarningPerSale ==
    \A u \in Users :
        Cardinality({i \in DOMAIN earnings : earnings[i].UserID = u})
        = Cardinality({i \in DOMAIN transactions :
                          transactions[i].SellerID = u /\ transactions[i].Status = "success"})

\* C7: payment/transaction agreement.  In every reachable state (each is the state
\* after a request returned), a payment that is success or failed belongs to a
\* transaction with that same status: terminal statuses agree, and no payment is
\* terminal while its transaction is still pending.
C7_PaymentAgreesWithTransaction ==
    \A i \in DOMAIN payments :
        (payments[i].Status \in TerminalStatuses /\ TxExists(DB, payments[i].TransactionID))
        => transactions[payments[i].TransactionID].Status = payments[i].Status

\* C8: signature rejection.  An IPN for a payment that awaits its outcome, whose
\* signed fields differ from the ones the gateway's signature was computed over,
\* the signature left as it was, is answered 400 and changes no ticket,
\* transaction, payment or earning.
C8_TamperedIpnRejected ==
    [][\A p \in TamperedPayloads :
          (/\ MomoIpn(p)
           /\ PaymentExists(DB, PayloadPaymentId(p))
           /\ payments[PayloadPaymentId(p)].Status = "pending")
          => (last'.code = 400 /\ UNCHANGED dbvars)]_vars

\* C9: no state mutation before signature verification.  A request to any of the
\* callback endpoints that changes a ticket, transaction, payment or earning has
\* verified the payload's signature successfully.
C9_NoWriteWithoutVerifiedSignature ==
    [][(last'.op \in CallbackOps /\ ~UNCHANGED dbvars) => last'.verified]_vars

\* C10: rollback correctness.  When the transaction callback delivers failed for a
\* pending transaction whose ticket is held Reserved, the ticket is Available
\* again, the transaction is failed and no Earning row is created.
C10_FailedSettlementReleases ==
    [][(/\ last'.op = "transaction_callback" /\ last'.code = 200 /\ last'.status = "failed"
        /\ TxExists(DB, last'.id)
        /\ transactions[last'.id].Status = "pending"
        /\ tickets[transactions[last'.id].TicketID].Status = "Reserved")
       => (/\ tickets'[transactions[last'.id].TicketID].Status = "Available"
           /\ transactions'[last'.id].Status = "failed"
           /\ earnings' = earnings)]_vars

\* the only purchase so far was a buy_ticket that reserved an Available ticket and
\* is waiting for its payment; its failed settlement has just been delivered
C10_ReleasedAfterFailure ==
    /\ Len(transactions) = 1
    /\ last = Resp("transaction_callback", 200, 1, "failed", FALSE, FALSE)
    /\ transactions[1].Status = "failed"
    /\ tickets[transactions[1].TicketID].Status = "Available"
    /\ payments[1].Status = "pending"
    /\ earnings = <<>>

\* C11: synchronous purchase settles inline.  In every reachable state, buy_ticket
\* asked for an Available ticket by a buyer other than its owner with Cash, Bank
\* Transfer or Credit Card (no repository call raising) answers 200 with status
\* success and leaves the ticket Sold, the new transaction success, its payment
\* success, and exactly one more Earning row: the seller's, of price minus 5% of
\* price.
C11_SyncPurchaseSettlesInline ==
    \A t \in TicketIds, b \in Users, m \in SyncMethods, w \in WalletChoices :
        (/\ tickets[t].Status = "Available"
         /\ tickets[t].OwnerID # b)
        => LET r == BuyTicketRequest(DB, b, t, m, w.wallet_type, w.gatewayOk, FALSE, FALSE)
               tx == Len(transactions) + 1
           IN /\ r.response = Resp("buy_ticket", 200, tx, "success", FALSE, FALSE)
              /\ r.db.tickets[t].Status = "Sold"
              /\ Len(r.db.transactions) = tx
              /\ r.db.transactions[tx].TicketID = t
              /\ r.db.transactions[tx].BuyerID = b
              /\ r.db.transactions[tx].Status = "success"
              /\ Len(r.db.payments) = Len(payments) + 1
              /\ r.db.payments[Len(r.db.payments)].TransactionID = tx
              /\ r.db.payments[Len(r.db.payments)].Methods = m
              /\ r.db.payments[Len(r.db.payments)].Status = "success"
              /\ r.db.earnings = Append(earnings,
                                        [UserID |-> tickets[t].OwnerID,
                                         TotalAmount |-> tickets[t].Price
                                                         - (tickets[t].Price * 5) \div 100])

\* a Credit Card purchase of the ticket priced 50.00 has just returned: Sold,
\* success, and 47.50 recorded for the seller
C11_CreditCardSold ==
    /\ last = Resp("buy_ticket", 200, 1, "success", FALSE, FALSE)
    /\ Len(payments) = 1
    /\ payments[1].Methods = "Credit Card"
    /\ payments[1].Status = "success"
    /\ transactions[1].Status = "success"
    /\ tickets[1].Status = "Sold"
    /\ earnings = <<[UserID |-> 1, TotalAmount |-> 4750]>>

\* C12: commission arithmetic.  Every breakdown calculate_seller_earnings returns
\* (amounts in whole units, rates in whole percents) has commission_amount =
\* amount * rate and seller_earnings = amount - commission_amount, so the two add
\* up to the amount; net_percentage is 100 * seller_earnings / amount, and 0 for
\* amount 0; for amount 100 and rate 0.05 it is 5, 95 and 95.
C12_CommissionArithmetic ==
    (last.op = "calculate_earnings" /\ last.code = 200) =>
        LET c == last.calculation
            amount == c.transaction_amount
            rate == c.platform_commission_rate
        IN /\ c.commission_amount * 100 = amount * rate
           /\ c.seller_earnings = amount - c.commission_amount
           /\ c.commission_amount + c.seller_earnings = amount
           /\ IF amount # 0
              THEN c.net_percentage * amount = 100 * c.seller_earnings
              ELSE c.net_percentage = 0
           /\ (amount = 10000 /\ rate = 5)
                 => (c.commission_amount = 500 /\ c.seller_earnings = 9500 /\ c.net_percentage = 95)

\* the breakdown of 100.00 at 0.05 has just been returned
C12_HundredAtFivePercent ==
    /\ last.op = "calculate_earnings"
    /\ last.code = 200
    /\ last.calculation.transaction_amount = 10000
    /\ last.calculation.platform_commission_rate = 5
    /\ last.calculation.commission_amount = 500
    /\ last.calculation.seller_earnings = 9500
    /\ last.calculation.net_percentage = 95

\* C13 as claimed: in every reachable state, whatever the ticket's status, a
\* purchase attempt by its owner (initiate or buy_ticket) fails with the
\* self-purchase error and changes no ticket, transaction or payment.
C13_OwnerAlwaysToldSelfPurchase ==
    \A t \in TicketIds, m \in Methods, c \in PayChoices, f \in BOOLEAN :
        LET ri == InitiateRequest(DB, tickets[t].OwnerID, t, m, tickets[t].Price, f)
            rb == BuyTicketRequest(DB, tickets[t].OwnerID, t, c.method, c.wallet_type,
                                   c.gatewayOk, f, FALSE)
        IN /\ ri.response.code # 200 /\ ri.response.status = "self_purchase" /\ ri.db = DB
           /\ rb.response.code # 200 /\ rb.response.status = "self_purchase" /\ rb.db = DB

\* C13: self-purchase is rejected before any reservation attempt.  In every
\* reachable state, whatever the ticket's status, a purchase attempt by its owner
\* (initiate or buy_ticket) fails and changes no ticket, transaction or payment;
\* the error is the self-purchase error when the ticket is Available or Reserved
\* and the unavailable error when it is Sold or Cancelled.
C13_OwnerPurchaseRejected ==
    \A t \in TicketIds, m \in Methods, c \in PayChoices, f \in BOOLEAN :
        LET ri == InitiateRequest(DB, tickets[t].OwnerID, t, m, tickets[t].Price, f)
            rb == BuyTicketRequest(DB, tickets[t].OwnerID, t, c.method, c.wallet_type,
                                   c.gatewayOk, f, FALSE)
            error == IF tickets[t].Status \in {"Available", "Reserved"}
                     THEN "self_purchase" ELSE "unavailable"
        IN /\ ri.response.code # 200 /\ ri.response.status = error /\ ri.db = DB
           /\ rb.response.code # 200 /\ rb.response.status = error /\ rb.db = DB

\* the owner has just been refused their own ticket while another buyer's MoMo
\* purchase holds it Reserved: the reservation and the pending rows are intact
C13_OwnerRefusedOnReservedTicket ==
    /\ last = Resp("buy_ticket", 400, 0, "self_purchase", FALSE, FALSE)
    /\ tickets[1].Status = "Reserved"
    /\ Len(transactions) = 1
    /\ transactions[1].Status = "pending"
    /\ transactions[1].BuyerID # tickets[1].OwnerID
    /\ Len(payments) = 1

\* the requests of the purchase and settlement flow
EngineOps == {"initiate", "buy_ticket", "transaction_callback", "process_payment"} \cup CallbackOps

\* C14: ticket status changes only through the transaction engine.  A request
\* outside the purchase and settlement flow, the owner's ticket update in
\* particular, leaves the status of every existing ticket as it was.
C14_StatusOnlyThroughEngine ==
    [][last'.op \notin EngineOps
       => \A t \in TicketIds : tickets'[t].Status = tickets[t].Status]_vars

\* C15: single terminal-transition path.  A notification carrying the gateway's
\* own signature, delivered to the IPN or the notify endpoint for a pending wallet
\* purchase (payment and transaction pending, ticket Reserved), leaves what the
\* synchronous path leaves: with resultCode 0 the transaction success, the ticket
\* Sold, the payment success with its Paid_at, and one more Earning; with another
\* resultCode the transaction failed, the ticket Available and the payment failed.
C15_NotificationSettlesLikeSync ==
    [][\A g \in Genuine :
          LET p == g @@ ("signature" :> GatewaySignature(g))
              payment_id == PayloadPaymentId(p)
              tx == payments[payment_id].TransactionID
              t == transactions[tx].TicketID
          IN (/\ last'.op \in {"momo_ipn", "momo_notify_url"}
              /\ PaymentExists(DB, payment_id)
              /\ payments[payment_id].Status = "pending"
              /\ payments[payment_id].Methods = "Digital Wallet"
              /\ transactions[tx].Status = "pending"
              /\ tickets[t].Status = "Reserved"
              /\ (MomoIpn(p) \/ MomoNotifyUrl(p)))
             => IF ResultIsSuccess(p.resultCode)
                THEN /\ transactions'[tx].Status = "success"
                     /\ tickets'[t].Status = "Sold"
                     /\ payments'[payment_id].Status = "success"
                     /\ payments'[payment_id].Paid_at # 0
                     /\ Len(earnings') = Len(earnings) + 1
                ELSE /\ transactions'[tx].Status = "failed"
                     /\ tickets'[t].Status = "Available"
                     /\ payments'[payment_id].Status = "failed"]_vars

\* C16: first terminal outcome wins under concurrency.  When a success delivery
\* and a failed delivery for the same transaction, the only one there is, have
\* both found it and returned, the earlier of them having found it pending,
\* whatever the interleaving of their statements, the rows are what
\* one of the two leaves when run alone on the pending transaction: transaction
\* success, ticket Sold and one Earning, or transaction failed, ticket Available
\* and no Earning.
C16_FirstOutcomeWins ==
    (/\ Len(transactions) = 1
     /\ \A c \in SettleCalls :
           settle[c].pc = "done" /\ settle[c].id = 1 /\ settle[c].seen # ""
     /\ \E c \in SettleCalls : settle[c].seen = "pending")
    => \/ /\ transactions[1].Status = "success"
          /\ tickets[transactions[1].TicketID].Status = "Sold"
          /\ Len(earnings) = 1
       \/ /\ transactions[1].Status = "failed"
          /\ tickets[transactions[1].TicketID].Status = "Available"
          /\ earnings = <<>>

\* the status changes the ticket lifecycle allows the engine to make
AllowedTransitions ==
    {<<"Available", "Reserved">>, <<"Reserved", "Sold">>, <<"Reserved", "Available">>}

\* C17: ticket transition relation.  Every change of a ticket's status made by a
\* purchase, settlement or callback request is Available->Reserved, Reserved->Sold
\* or Reserved->Available (a buy_ticket that reserves and settles in one request
\* goes Available->Reserved->Sold); none is Available->Sold, Sold->Reserved or
\* Sold->Available, and none writes a value other than Available, Reserved, Sold
\* or Cancelled.
C17_TransitionRelation ==
    [][\A t \in TicketIds :
          (last'.op \in EngineOps /\ tickets'[t].Status # tickets[t].Status)
          => \/ <<tickets[t].Status, tickets'[t].Status>> \in AllowedTransitions
             \/ /\ last'.op = "buy_ticket"
                /\ last'.status = "success"
                /\ <<tickets[t].Status, tickets'[t].Status>> = <<"Available", "Sold">>]_vars

\* C18: commit requires Reserved.  A success settlement delivered for a
\* transaction that is not success yet, while its ticket is not Reserved (Available
\* again, say, after a failed settlement released it), is answered with an error
\* and does not mark the ticket Sold.
C18_CommitRequiresReserved ==
    [][(/\ last'.op = "transaction_callback"
        /\ last'.status = "success"
        /\ TxExists(DB, last'.id)
        /\ transactions[last'.id].Status # "success"
        /\ tickets[transactions[last'.id].TicketID].Status # "Reserved")
       => (/\ last'.code # 200
           /\ tickets'[transactions[last'.id].TicketID].Status = "Sold"
                 => tickets[transactions[last'.id].TicketID].Status = "Sold")]_vars

\* C19: a failed payment in the purchase flow releases the ticket.  When
\* buy_ticket has created its transaction and its payment processing ends neither
\* in success nor in a pending redirect, then as buy_ticket returns the ticket is
\* Available, the transaction is failed and its payment is failed.
C19_FailedPaymentReleases ==
    [][(/\ last'.op = "buy_ticket"
        /\ last'.id # 0
        /\ last'.status \notin {"success", "pending"})
       => (/\ tickets'[transactions'[last'.id].TicketID].Status = "Available"
           /\ transactions'[last'.id].Status = "failed"
           /\ \A i \in DOMAIN payments' :
                 payments'[i].TransactionID = last'.id => payments'[i].Status = "failed")]_vars

\* C20: a failed earning record does not reverse the sale.  In every reachable
\* state, when the Earning insert raises after a success settlement, the database
\* is exactly what the settlement left, without the Earning row: in buy_ticket
\* (answered 500) the ticket is Sold, the new transaction success and its payment
\* success; in transaction_callback (answered 200) the ticket is Sold, the
\* transaction success and no payment is touched.
C20_EarningFailureKeepsSale ==
    /\ \A t \in TicketIds, b \in Users, m \in SyncMethods :
          (/\ PurchasableStatus(tickets[t].Status)
           /\ tickets[t].OwnerID # b)
          => LET r == BuyTicketRequest(DB, b, t, m, "", TRUE, FALSE, TRUE)
                 ok == BuyTicketRequest(DB, b, t, m, "", TRUE, FALSE, FALSE)
                 tx == Len(transactions) + 1
             IN /\ r.response = Resp("buy_ticket", 500, tx, "error", FALSE, FALSE)
                /\ r.db.tickets[t].Status = "Sold"
                /\ r.db.transactions[tx].Status = "success"
                /\ r.db.payments[Len(r.db.payments)].TransactionID = tx
                /\ r.db.payments[Len(r.db.payments)].Status = "success"
                /\ r.db.earnings = earnings
                /\ r.db = [ok.db EXCEPT !.earnings = earnings]
    /\ \A i \in 1..Len(transactions) :
          LET s == ProcessTransactionCallback(DB, i, "success") IN
          (s.ok /\ transactions[i].Status # "success")
          => LET r == TransactionCallbackRequest(DB, i, "success", TRUE)
             IN /\ r.response = Resp("transaction_callback", 200, i, "success", FALSE, FALSE)
                /\ r.db = s.db
                /\ r.db.tickets[transactions[i].TicketID].Status = "Sold"
                /\ r.db.transactions[i].Status = "success"
                /\ r.db.payments = payments
                /\ r.db.earnings = earnings

\* a Cash purchase whose Earning insert raised has just been answered 500: the
\* ticket is Sold, the transaction and the payment are success, no Earning exists
C20_SoldWithoutEarning ==
    /\ last = Resp("buy_ticket", 500, 1, "error", FALSE, FALSE)
    /\ tickets[1].Status = "Sold"
    /\ transactions[1].Status = "success"
    /\ Len(payments) = 1
    /\ payments[1].Methods = "Cash"
    /\ payments[1].Status = "success"
    /\ earnings = <<>>

\* C21: release is idempotent.  In every reachable state, a failed settlement
\* posted for an existing transaction is answered 200; if the ticket was
\* Available it is still Available; and posting it a second and a third time is
\* answered 200 and leaves the tickets, transactions, payments and earnings
\* exactly as the first left them.
C21_ReleaseIdempotent ==
    \A i \in 1..Len(transactions) :
        LET r1 == TransactionCallbackRequest(DB, i, "failed", FALSE)
            r2 == TransactionCallbackRequest(r1.db, i, "failed", FALSE)
            r3 == TransactionCallbackRequest(r2.db, i, "failed", FALSE)
            t == transactions[i].TicketID
        IN /\ r1.response = Resp("transaction_callback", 200, i, "failed", FALSE, FALSE)
           /\ tickets[t].Status = "Available" => r1.db.tickets[t].Status = "Available"
           /\ r1.db.transactions[i].Status = "failed"
           /\ r1.db.payments = payments
           /\ r2 = r1
           /\ r3 = r1

\* the transaction came from /initiate, which reserves nothing, and a failed
\* settlement has just been answered 200: the ticket, Available throughout, is
\* Available and the transaction failed
C21_FailedOnAvailableTicket ==
    /\ last = Resp("transaction_callback", 200, 1, "failed", FALSE, FALSE)
    /\ Len(transactions) = 1
    /\ transactions[1].Status = "failed"
    /\ Len(payments) = 1
    /\ payments[1].Methods = "Cash"
    /\ payments[1].Status = "pending"
    /\ tickets[1].Status = "Available"

\* C22: preview and recorded earning agree.  Whenever a settlement (buy_ticket or
\* the transaction callback) records an Earning row for a sale, the row's amount
\* is the seller_earnings the preview computes for the sold ticket's price.
C22_PreviewAgreesWithEarning ==
    [][(/\ last'.op \in {"buy_ticket", "transaction_callback"}
        /\ last'.code = 200
        /\ Len(earnings') = Len(earnings) + 1)
       => LET t == transactions'[last'.id].TicketID
          IN earnings'[Len(earnings')].TotalAmount = PreviewBreakdown(DB, t).seller_earnings]_vars

\* C30: transaction amount equals the ticket price.  Every step that creates a
\* transaction (buy_ticket or /initiate) stores in it the price its ticket has at
\* that moment, and a ticket that becomes Sold through a settlement named in the
\* response is sold by a transaction whose Amount is its price.
C30_AmountIsTicketPrice ==
    [][/\ Len(transactions') = Len(transactions) + 1
          => LET tx == transactions'[Len(transactions')]
             IN tx.Amount = tickets[tx.TicketID].Price
       /\ \A t \in TicketIds :
            (/\ tickets[t].Status # "Sold"
             /\ tickets'[t].Status = "Sold"
             /\ last'.id \in DOMAIN transactions')
            => transactions'[last'.id].Amount = tickets'[t].Price]_vars

\* C23: no hard delete under a live purchase.  In every reachable state, a delete
\* request by any caller for a ticket that a pending transaction refers to is
\* refused: it is not answered 204 and it leaves the ticket, the transactions
\* and the payments as they are.
C23_NoDeleteUnderLivePurchase ==
    \A t \in DOMAIN tickets, u \in Callers :
        TransactionsOf(t, {"pending"}) # {}
        => LET r == DeleteTicketRequest(DB, u, t)
           IN /\ r.response.code # 204
              /\ r.db.tickets = tickets
              /\ r.db.transactions = transactions
              /\ r.db.payments = payments

\* C24: paid_at only on success.  In every reachable state a payment whose Paid_at
\* is set (not null) has status success.
C24_PaidAtOnlyOnSuccess ==
    \A i \in DOMAIN payments : payments[i].Paid_at # 0 => payments[i].Status = "success"

\* C25: transaction status domain.  In every reachable state every transaction's
\* status is pending, success or failed.
C25_TransactionStatusDomain ==
    \A i \in DOMAIN transactions : transactions[i].Status \in {"pending", "success", "failed"}

\* C26: Sold is absorbing.  No purchase request and no settlement callback,
\* whatever it answers, changes the status of a ticket that is Sold.
C26_SoldIsAbsorbing ==
    [][\A t \in TicketIds :
          tickets[t].Status = "Sold" => tickets'[t].Status = "Sold"]_vars

\* C27: a failing initiate_transaction only undoes its own reservation.  In every
\* reachable state in which a ticket is Reserved under another buyer's pending
\* transaction, a buy_ticket request in which initiate_transaction raises (no
\* transaction is stored) leaves that ticket Reserved.
C27_RollbackOnlyOwnReservation ==
    \A t \in TicketIds, b \in Users, c \in PayChoices, f \in BOOLEAN :
        (/\ tickets[t].Status = "Reserved"
         /\ \E i \in TransactionsOf(t, {"pending"}) : transactions[i].BuyerID # b)
        => LET r == BuyTicketRequest(DB, b, t, c.method, c.wallet_type, c.gatewayOk, f, FALSE)
           IN Len(r.db.transactions) = Len(transactions)
              => r.db.tickets[t].Status = "Reserved"

\* C28: at most one live purchase per ticket.  In every reachable state each
\* ticket has at most one transaction in status pending.
C28_OnePendingPerTicket ==
    \A t \in TicketIds : Cardinality(TransactionsOf(t, {"pending"})) <= 1

\* C29: reservation matches a pending transaction.  In every reachable state
\* (each is between two requests) a ticket is Reserved exactly when some
\* transaction of it is pending.
C29_ReservedIffPending ==
    \A t \in TicketIds :
        tickets[t].Status = "Reserved" <=> TransactionsOf(t, {"pending"}) # {}

====
